---- MODULE Spec2Model ----
(***************************************************************************)
(* Model of mysql_to_sqlite3/transporter.py: MySQLtoSQLite.transfer() and  *)
(* the operations it drives (_create_table, _build_create_table_sql,       *)
(* _transfer_table_data), run against a MySQL source that may drop the     *)
(* connection and a SQLite target with python's sqlite3 transaction rules. *)
(***************************************************************************)
EXTENDS Integers, Sequences, FiniteSets, TLC

\* ------------------------------------------------------------------ bounds
MaxTables == 2      \* tables in the source database
MaxRows == 3        \* rows per source table
MaxChunk == 3       \* largest configured chunk size
MaxFaults == 2      \* errors the environment raises in one run
MaxRuns == 2        \* invocations of transfer() against the same target file

\* ------------------------------------------------------------ source data
TableNames == <<"t1", "t2", "t3", "t4">>

KeyKinds == {"PRI", "UNI", "MUL", ""}

\* A raw cursor (raw=True) hands every column over as bytes, or None.
None == <<"None">>
Bytes(n) == <<"bytes", n>>

\* The columns SHOW COLUMNS reports: a key column and a nullable payload.
\* A type declaration is the sequence of its characters.
SourceColumns(key) ==
    << [Field |-> "Id", Type |-> <<"i", "n", "t">>,
         Null |-> "NO", Key |-> key],
       [Field |-> "v", Type |-> <<"t", "e", "x", "t">>,
         Null |-> "YES", Key |-> ""] >>

\* Row i of a table.  A PRI or UNI column holds distinct values, as MySQL
\* enforces; other columns repeat values, so whole rows repeat.
SourceRow(key, i) ==
    << IF key \in {"PRI", "UNI"} THEN Bytes(i) ELSE Bytes(((i - 1) % 2) + 1),
       IF i % 2 = 1 THEN None ELSE Bytes(7) >>

SourceTable(name, key, n) ==
    [name |-> name, columns |-> SourceColumns(key),
     rows |-> [i \in 1..n |-> SourceRow(key, i)]]

\* The table every database of the model has beside the one that varies: a
\* primary key and two rows.
OtherTable(name) == SourceTable(name, "PRI", 2)

\* The source databases: up to MaxTables tables, one of them of any key kind
\* and size, at any place in the order of SHOW TABLES.
SourceDatabases ==
    { [i \in 1..m |-> IF i = f THEN SourceTable(TableNames[i], k, n)
                      ELSE OtherTable(TableNames[i])] :
        m \in 1..MaxTables, f \in 1..MaxTables, k \in KeyKinds, n \in 0..MaxRows }

\* kwargs.get("chunk") or None: 0 stands for None.
ChunkSizes == 0..MaxChunk

\* ------------------------------------------------------------ type mapper
Lower == <<"a", "b", "c", "d", "e", "f", "g", "h", "i", "j", "k", "l", "m",
           "n", "o", "p", "q", "r", "s", "t", "u", "v", "w", "x", "y", "z">>
Upper == <<"A", "B", "C", "D", "E", "F", "G", "H", "I", "J", "K", "L", "M",
           "N", "O", "P", "Q", "R", "S", "T", "U", "V", "W", "X", "Y", "Z">>
Digits == {"0", "1", "2", "3", "4", "5", "6", "7", "8", "9"}
Whitespace == {" ", "\t", "\n"}

UpperChar(c) ==
    IF \E i \in 1..26 : Lower[i] = c
    THEN Upper[CHOOSE i \in 1..26 : Lower[i] = c]
    ELSE c

ToUpper_same(s) == s

\* str.upper()
ToUpper(s) == [i \in 1..Len(s) |-> UpperChar(s[i])]

Strip_nothing(s) == s

\* str.strip()
Strip(s) ==
    LET keep == {i \in 1..Len(s) : s[i] \notin Whitespace}
    IN IF keep = {} THEN <<>>
       ELSE LET lo == CHOOSE i \in keep : \A j \in keep : i <= j
                hi == CHOOSE i \in keep : \A j \in keep : j <= i
            IN SubSeq(s, lo, hi)

\* COLUMN_PATTERN = ^[^(]+ matched against the stripped declaration: the
\* longest prefix free of "(", or no match (<<>>) when that prefix is empty.
_valid_column_type(column_type) ==
    LET s == Strip(column_type)
        stop == {i \in 1..Len(s) : s[i] = "("}
        n == IF stop = {} THEN Len(s)
             ELSE (CHOOSE i \in stop : \A j \in stop : i <= j) - 1
    IN SubSeq(s, 1, n)

_column_type_length_none(column_type) == <<>>

\* COLUMN_LENGTH_PATTERN = \(\d+\)$ searched in the declaration as given:
\* "$" also matches just before one trailing newline.
_column_type_length(column_type) ==
    LET n == Len(column_type)
        e == IF n > 0 /\ column_type[n] = "\n" THEN n - 1 ELSE n
        opens == {i \in 1..e : /\ column_type[i] = "("
                               /\ i + 1 < e
                               /\ column_type[e] = ")"
                               /\ \A j \in (i + 1)..(e - 1) : column_type[j] \in Digits}
    IN IF e < 1 \/ opens = {} THEN <<>>
       ELSE SubSeq(column_type, CHOOSE i \in opens : TRUE, e)

InvalidColumnType == <<"!", "V", "a", "l", "u", "e", "E", "r", "r", "o", "r">>

_translate_type_from_mysql_to_sqlite(column_type) ==
    LET match == _valid_column_type(column_type)
        data_type == ToUpper(match)
    IN IF match = <<>> THEN InvalidColumnType
       ELSE IF data_type = <<"T", "I", "N", "Y", "I", "N", "T">> THEN data_type
       ELSE IF data_type = <<"S", "M", "A", "L", "L", "I", "N", "T">> THEN data_type
       ELSE IF data_type = <<"M", "E", "D", "I", "U", "M", "I", "N", "T">> THEN data_type
       ELSE IF data_type \in {<<"I", "N", "T">>, <<"I", "N", "T", "E", "G", "E", "R">>}
            THEN <<"I", "N", "T", "E", "G", "E", "R">>
       ELSE IF data_type = <<"B", "I", "G", "I", "N", "T">> THEN data_type
       ELSE IF data_type = <<"D", "O", "U", "B", "L", "E">> THEN data_type
       ELSE IF data_type = <<"F", "L", "O", "A", "T">> THEN data_type
       ELSE IF data_type \in {<<"D", "E", "C", "I", "M", "A", "L">>, <<"Y", "E", "A", "R">>,
                              <<"T", "I", "M", "E">>, <<"N", "U", "M", "E", "R", "I", "C">>}
            THEN <<"N", "U", "M", "E", "R", "I", "C">>
       ELSE IF data_type = <<"R", "E", "A", "L">> THEN data_type
       ELSE IF data_type \in {<<"D", "A", "T", "E", "T", "I", "M", "E">>,
                              <<"T", "I", "M", "E", "S", "T", "A", "M", "P">>}
            THEN <<"D", "A", "T", "E", "T", "I", "M", "E">>
       ELSE IF data_type = <<"D", "A", "T", "E">> THEN data_type
       ELSE IF data_type \in {<<"B", "I", "T">>, <<"B", "I", "N", "A", "R", "Y">>,
                              <<"B", "L", "O", "B">>,
                              <<"L", "O", "N", "G", "B", "L", "O", "B">>,
                              <<"M", "E", "D", "I", "U", "M", "B", "L", "O", "B">>,
                              <<"T", "I", "N", "Y", "B", "L", "O", "B">>,
                              <<"V", "A", "R", "B", "I", "N", "A", "R", "Y">>}
            THEN <<"B", "L", "O", "B">>
       ELSE IF data_type = <<"B", "O", "O", "L", "E", "A", "N">> THEN data_type
       ELSE IF data_type = <<"C", "H", "A", "R">>
            THEN <<"C", "H", "A", "R", "A", "C", "T", "E", "R">>
                     \o _column_type_length(column_type)
       ELSE IF data_type = <<"N", "C", "H", "A", "R">>
            THEN data_type \o _column_type_length(column_type)
       ELSE IF data_type = <<"N", "V", "A", "R", "C", "H", "A", "R">>
            THEN data_type \o _column_type_length(column_type)
       ELSE IF data_type = <<"V", "A", "R", "C", "H", "A", "R">>
            THEN data_type \o _column_type_length(column_type)
       ELSE <<"T", "E", "X", "T">>

\* ------------------------------------------------- type declarations (input)
MaxLength == 3      \* digits in the length of a declaration, as in (191)
MaxCalls == 2       \* calls of the type mapper on one declaration

\* The type names of MySQL and of SQLite, as sequences of characters.
TINYINT == <<"T", "I", "N", "Y", "I", "N", "T">>
SMALLINT == <<"S", "M", "A", "L", "L", "I", "N", "T">>
MEDIUMINT == <<"M", "E", "D", "I", "U", "M", "I", "N", "T">>
INT == <<"I", "N", "T">>
INTEGER == <<"I", "N", "T", "E", "G", "E", "R">>
BIGINT == <<"B", "I", "G", "I", "N", "T">>
DOUBLE == <<"D", "O", "U", "B", "L", "E">>
FLOAT == <<"F", "L", "O", "A", "T">>
DECIMAL == <<"D", "E", "C", "I", "M", "A", "L">>
YEAR == <<"Y", "E", "A", "R">>
TIME == <<"T", "I", "M", "E">>
NUMERIC == <<"N", "U", "M", "E", "R", "I", "C">>
REAL == <<"R", "E", "A", "L">>
DATETIME == <<"D", "A", "T", "E", "T", "I", "M", "E">>
TIMESTAMP == <<"T", "I", "M", "E", "S", "T", "A", "M", "P">>
DATE == <<"D", "A", "T", "E">>
BIT == <<"B", "I", "T">>
BINARY == <<"B", "I", "N", "A", "R", "Y">>
BLOB == <<"B", "L", "O", "B">>
LONGBLOB == <<"L", "O", "N", "G", "B", "L", "O", "B">>
MEDIUMBLOB == <<"M", "E", "D", "I", "U", "M", "B", "L", "O", "B">>
TINYBLOB == <<"T", "I", "N", "Y", "B", "L", "O", "B">>
VARBINARY == <<"V", "A", "R", "B", "I", "N", "A", "R", "Y">>
BOOLEAN_TYPE == <<"B", "O", "O", "L", "E", "A", "N">>
CHAR == <<"C", "H", "A", "R">>
NCHAR == <<"N", "C", "H", "A", "R">>
NVARCHAR == <<"N", "V", "A", "R", "C", "H", "A", "R">>
VARCHAR == <<"V", "A", "R", "C", "H", "A", "R">>
CHARACTER == <<"C", "H", "A", "R", "A", "C", "T", "E", "R">>
TEXT == <<"T", "E", "X", "T">>
ENUM == <<"E", "N", "U", "M">>
JSON == <<"J", "S", "O", "N">>

\* The names the mapper tests for.
Recognized ==
    {TINYINT, SMALLINT, MEDIUMINT, INT, INTEGER, BIGINT, DOUBLE, FLOAT, DECIMAL,
     YEAR, TIME, NUMERIC, REAL, DATETIME, TIMESTAMP, DATE, BIT, BINARY, BLOB,
     LONGBLOB, MEDIUMBLOB, TINYBLOB, VARBINARY, BOOLEAN_TYPE, CHAR, NCHAR,
     NVARCHAR, VARCHAR}

\* Names a declaration may start with: the recognized ones, some the mapper
\* has no test for, and none at all.
DeclaredNames == Recognized \cup {TEXT, ENUM, JSON, <<>>}

LowerChar(c) ==
    IF \E i \in 1..26 : Upper[i] = c
    THEN Lower[CHOOSE i \in 1..26 : Upper[i] = c]
    ELSE c

\* SHOW COLUMNS reports the type in lower case.
ToLower(s) == [i \in 1..Len(s) |-> LowerChar(s[i])]

RECURSIVE DigitStrings(_)
DigitStrings(n) ==
    IF n = 0 THEN {<<>>}
    ELSE {<<>>} \cup {<<d>> \o t : d \in {"1", "9"}, t \in DigitStrings(n - 1)}

\* (1), (11), (191), ...
LengthSuffixes ==
    {<<"(">> \o d \o <<")">> : d \in DigitStrings(MaxLength) \ {<<>>}}

\* What else follows a type name in parentheses: (1,1) of a decimal, ('a')
\* of an enum, and ().
OtherSuffixes ==
    {<<"(", "1", ",", "1", ")">>, <<"(", "'", "a", "'", ")">>, <<"(", ")">>}

\* What follows the parentheses: nothing, white space, or an attribute as in
\* "int(10) unsigned".
Trailers == {<<>>, <<" ">>, <<"\n">>, <<" ", "u">>}

\* A declaration by its parts: white space, a type name in upper or lower
\* case, a parenthesized suffix or none, and a trailer.
Declarations ==
    {d \in [lead : {<<>>, <<" ">>}, name : DeclaredNames, lower : BOOLEAN,
            suffix : {<<>>} \cup LengthSuffixes \cup OtherSuffixes,
            trail : Trailers] :
        /\ d.name = <<>> => ~d.lower
        /\ d.trail = <<" ", "u">> => d.suffix # <<>>}

NoDeclaration ==
    [lead |-> <<>>, name |-> <<>>, lower |-> FALSE, suffix |-> <<>>, trail |-> <<>>]

\* The string of a declaration: row["Type"].
Text(d) ==
    d.lead \o (IF d.lower THEN ToLower(d.name) ELSE d.name) \o d.suffix \o d.trail

\* ------------------------------------------------------ schema synthesizer
\* slugify(field, separator="_") on the column names of the model.
slugify(field) == IF field = "Id" THEN "id" ELSE field

Indexed_all(cols) == SelectSeq(cols, LAMBDA row : row.Key # "")

\* if row["Key"] in {"PRI", "UNI", "MUL"}: ... else: indices += ...
Indexed(cols) == SelectSeq(cols, LAMBDA row : row.Key \in {"UNI", "MUL"})

\* The script _build_create_table_sql renders, statement by statement:
\* CREATE TABLE IF NOT EXISTS with the column clauses and, when some column
\* is PRI, one PRIMARY KEY clause; then one CREATE [UNIQUE] INDEX statement
\* per UNI or MUL column.  cols is the result of SHOW COLUMNS.
_build_create_table_sql(table_name, cols) ==
    LET pri == SelectSeq(cols, LAMBDA row : row.Key = "PRI")
        idx == Indexed(cols)
    IN [table |-> table_name,
        columns |-> [i \in 1..Len(cols) |->
                        [name |-> cols[i].Field,
                         type |-> _translate_type_from_mysql_to_sqlite(cols[i].Type),
                         notnull |-> cols[i].Null # "YES"]],
        has_primary_key |-> pri # <<>>,
        primary |-> [i \in 1..Len(pri) |-> pri[i].Field],
        indices |-> [i \in 1..Len(idx) |->
                        [unique |-> idx[i].Key = "UNI",
                         name |-> <<table_name, slugify(idx[i].Field), "IDX">>,
                         table |-> table_name,
                         column |-> idx[i].Field]]]

\* --------------------------------------------------- table schemas (input)
MaxColumns == 4     \* columns of a table handed to the schema synthesizer

FieldNames == <<"Id", "v", "w", "x", "y">>

\* What SHOW COLUMNS may report for a table of n columns: every column of
\* any key kind, the primary ones NOT NULL.
ShownColumns(n) ==
    {[i \in 1..n |-> [Field |-> FieldNames[i], Type |-> <<"i", "n", "t">>,
                      Null |-> IF keys[i] = "PRI" THEN "NO" ELSE "YES",
                      Key |-> keys[i]]] : keys \in [1..n -> KeyKinds]}

\* One-table sources with no rows, of every shape of keys.
SchemaSources ==
    {<<[name |-> TableNames[1], columns |-> cols, rows |-> <<>>]>> :
        cols \in UNION {ShownColumns(n) : n \in 1..MaxColumns}}

NoScript == <<>>

\* ----------------------------------------------------------- SQLite target
\* A database: its tables by name and its indices.
EmptyDatabase == [tables |-> [n \in {} |-> 0], indices |-> {}]

ColumnPos(columns, name) == CHOOSE i \in 1..Len(columns) : columns[i].name = name

\* Two rows collide on a column list when all the values are equal and not NULL.
SameKey(t, r1, r2, names) ==
    \A i \in 1..Len(names) :
        LET p == ColumnPos(t.columns, names[i])
        IN r1[p] # None /\ r1[p] = r2[p]

\* The row breaks a constraint of the table: NOT NULL, PRIMARY KEY or a
\* unique index.
Conflicts(db, table, row) ==
    LET t == db.tables[table]
    IN \/ \E i \in 1..Len(t.columns) : t.columns[i].notnull /\ row[i] = None
       \/ /\ t.primary # <<>>
          /\ \E j \in 1..Len(t.rows) : SameKey(t, row, t.rows[j], t.primary)
       \/ \E ix \in db.indices :
             /\ ix.table = table
             /\ ix.unique
             /\ \E j \in 1..Len(t.rows) : SameKey(t, row, t.rows[j], <<ix.column>>)

\* INSERT OR IGNORE of one row bound by position to the named fields.
InsertOrIgnore(db, table, fields, values) ==
    LET t == db.tables[table]
        row == [i \in 1..Len(t.columns) |->
                   IF \E j \in 1..Len(fields) : fields[j] = t.columns[i].name
                   THEN values[CHOOSE j \in 1..Len(fields) : fields[j] = t.columns[i].name]
                   ELSE None]
    IN IF Conflicts(db, table, row) THEN db
       ELSE [db EXCEPT !.tables[table].rows = Append(@, row)]

\* cursor.executemany(sql, rows) for the INSERT OR IGNORE statement.
RECURSIVE executemany(_, _, _, _)
executemany(db, table, fields, rows) ==
    IF rows = <<>> THEN db
    ELSE executemany(InsertOrIgnore(db, table, fields, Head(rows)),
                     table, fields, Tail(rows))

\* CREATE [UNIQUE] INDEX name ON table (column): fails when an index of that
\* name exists, or when the rows already there are not unique.
CreateIndexFails(db, ix) ==
    \/ \E other \in db.indices : other.name = ix.name
    \/ /\ ix.unique
       /\ LET t == db.tables[ix.table]
          IN \E i, j \in 1..Len(t.rows) :
                i < j /\ SameKey(t, t.rows[i], t.rows[j], <<ix.column>>)

RECURSIVE CreateIndices(_, _)
CreateIndices(db, stmts) ==
    IF stmts = <<>> THEN [db |-> db, ok |-> TRUE]
    ELSE IF CreateIndexFails(db, Head(stmts)) THEN [db |-> db, ok |-> FALSE]
    ELSE CreateIndices([db EXCEPT !.indices = @ \cup {Head(stmts)}], Tail(stmts))

\* cursor.executescript(script): the statements run in order and the script
\* stops at the first one that fails; what ran before it stays.
executescript(db, ddl) ==
    LET made == IF ddl.table \in DOMAIN db.tables THEN db
                ELSE [db EXCEPT !.tables =
                        [n \in DOMAIN db.tables \cup {ddl.table} |->
                            IF n = ddl.table
                            THEN [columns |-> ddl.columns,
                                  primary |-> ddl.primary,
                                  rows |-> <<>>]
                            ELSE db.tables[n]]]
    IN CreateIndices(made, ddl.indices)

\* col.decode() if col is not None else None
Decode(col) == IF col = None THEN None ELSE <<"str", col[2]>>

DecodeRows(rows) ==
    [i \in 1..Len(rows) |-> [j \in 1..Len(rows[i]) |-> Decode(rows[i][j])]]

TotalChunks_floor(total_records, size) == total_records \div size

\* int(ceil(total_records / self._chunk_size))
TotalChunks(total_records, size) == (total_records + size - 1) \div size

\* -------------------------------------------------------------------- state
VARIABLES
    src,                    \* the source database: its tables in SHOW TABLES order
    chunk_size,             \* self._chunk_size (0: None)
    vacuum,                 \* self._vacuum
    pc,                     \* where transfer() stands
    ti,                     \* the table of the current loop iteration
    _current_chunk_number,  \* self._current_chunk_number
    total_records,          \* total_records of the current table
    attempting_reconnect,   \* the parameter of the running call
    chunk,                  \* the next index of the trange loop
    cursor,                 \* the result set of self._mysql_cur
    sqlite,                 \* the target as the connection sees it
    disk,                   \* the target as committed to the file
    raised,                 \* the exception transfer() ended with
    run,                    \* number of the invocation
    faults,                 \* errors raised by the environment in this run
    met,                    \* what the last operation met
    ops,                    \* operations issued in this run, by table
    created,                \* tables whose _create_table call returned
    copied,                 \* tables whose _transfer_table_data call returned
    reconnects,             \* reconnect() calls of the running operation
    lost_chunk,             \* chunk whose fetch lost the connection, or -1
    iterated,               \* chunk indices the loop iterated, per attempt
    inserted,               \* rows the running transfer added to the target
    vacuums,                \* VACUUM statements executed in this run
    prev,                   \* how the run before ended, and the rows it left
    declaration,            \* the declaration handed to the type mapper
    translated,             \* what the calls of the type mapper returned
    sql,                    \* the script _build_create_table_sql returned
    kwargs,                 \* the arguments given to the constructor
    handles                 \* the connections the object has opened

vars == <<src, chunk_size, vacuum, pc, ti, _current_chunk_number, total_records,
          attempting_reconnect, chunk, cursor, sqlite, disk, raised, run, faults,
          met, ops, created, copied, reconnects, lost_chunk, iterated, inserted, vacuums,
          prev, declaration, translated, sql, kwargs, handles>>

\* What transfer() does not touch: the inputs and results of the class
\* methods, the arguments of the constructor and the connections it opened.
apart == <<declaration, translated, sql, kwargs, handles>>

config == <<src, chunk_size, vacuum, prev, apart>>
target == <<sqlite, disk>>
callHistory == <<reconnects, lost_chunk, iterated, inserted>>

NoCursor == [table |-> 0, pos |-> 0, alive |-> FALSE]

\* The arguments of an object that was constructed.
Constructed ==
    /\ kwargs = [mysql_user |-> "user", mysql_database |-> "db",
                 chunk |-> chunk_size, vacuum |-> vacuum]
    /\ handles = {"sqlite", "mysql"}

\* MySQLtoSQLite(...) opened against the target file.
Construct ==
    /\ pc = "start"
    /\ ti = 0
    /\ _current_chunk_number = 0
    /\ total_records = 0
    /\ attempting_reconnect = FALSE
    /\ chunk = 0
    /\ cursor = NoCursor
    /\ raised = "none"
    /\ faults = 0
    /\ met = "ok"
    /\ ops = {}
    /\ created = {}
    /\ copied = {}
    /\ reconnects = 0
    /\ lost_chunk = -1
    /\ iterated = <<>>
    /\ inserted = 0
    /\ vacuums = 0

Init ==
    /\ src \in SourceDatabases
    /\ chunk_size \in ChunkSizes
    /\ vacuum \in BOOLEAN
    /\ sqlite = EmptyDatabase
    /\ disk = EmptyDatabase
    /\ run = 1
    /\ prev = [ended |-> "none", rows |-> <<>>]
    /\ Construct
    /\ declaration = NoDeclaration
    /\ translated = <<>>
    /\ sql = NoScript
    /\ Constructed

\* ------------------------------------------------------------- environment
\* What an operation meets: nothing, a lost source connection
\* (errno CR_SERVER_LOST), another mysql.connector.Error, or a sqlite3.Error.
Meets(f) ==
    /\ f # "ok" => faults < MaxFaults
    /\ faults' = IF f = "ok" THEN faults ELSE faults + 1
    /\ met' = f

Raise_swallowed(err) ==
    /\ pc' = "after_tables"
    /\ raised' = "none"

\* An exception leaves transfer().
Raise(err) ==
    /\ pc' = "aborted"
    /\ raised' = err

Issue(t, op) == ops' = ops \cup {<<t, op>>}
Issue2(t, op1, op2) == ops' = ops \cup {<<t, op1>>, <<t, op2>>}

Chunked == chunk_size > 0

MayRetry_always == TRUE

\* if not attempting_reconnect: the call retries itself
MayRetry == ~attempting_reconnect

HasRecords_nonneg(n) == n >= 0

\* if total_records > 0:
HasRecords(n) == n > 0

ResumeIndex_restart ==
    IF attempting_reconnect THEN _current_chunk_number - _current_chunk_number
    ELSE _current_chunk_number

\* trange(self._current_chunk_number, ...): where the loop starts
ResumeIndex == _current_chunk_number

Vacuuming_always == TRUE

\* if self._vacuum:
Vacuuming == vacuum

CommittedSchema_not(db) == disk

\* What is committed once executescript has run on db and
\* self._sqlite.commit() has returned.
CommittedSchema(db) == db

StoredChunk_next(c) == c + 1

\* self._current_chunk_number = chunk, the first statement of an iteration
StoredChunk(c) == c

CommittedAfterChunk_each(db) == db

\* What is committed once an iteration of the loop has run executemany on
\* db: the commit comes after the loop, none is made inside it.
CommittedAfterChunk(db) == disk

Fields_reversed(t) ==
    [i \in 1..Len(src[t].columns) |-> src[t].columns[Len(src[t].columns) + 1 - i].Field]

\* columns = [column[0] for column in self._mysql_cur.description]
Fields(t) == [i \in 1..Len(src[t].columns) |-> src[t].columns[i].Field]

\* fetchmany(size) or fetchall() (size 0) on the raw cursor: the next rows of
\* the result set; nothing when the result set is gone.
Fetch(size) ==
    LET all == src[cursor.table].rows
        last == IF size = 0 \/ cursor.pos + size > Len(all)
                THEN Len(all) ELSE cursor.pos + size
    IN IF cursor.alive THEN SubSeq(all, cursor.pos + 1, last) ELSE <<>>

\* Where _transfer_table_data stands when its loop starts at index c.
LoopFrom(c, total) ==
    IF Chunked /\ c >= TotalChunks(total, chunk_size) THEN "commit" ELSE "transfer"

NextTable_noReset ==
    IF ti < Len(src)
    THEN /\ ti' = ti + 1
         /\ pc' = "create"
         /\ UNCHANGED _current_chunk_number
    ELSE /\ pc' = "after_tables"
         /\ UNCHANGED <<ti, _current_chunk_number>>

\* for row in self._mysql_cur.fetchall(): the next iteration, which resets
\* the chunk number, or the end of the loop.
NextTable ==
    IF ti < Len(src)
    THEN /\ ti' = ti + 1
         /\ _current_chunk_number' = 0
         /\ pc' = "create"
    ELSE /\ pc' = "after_tables"
         /\ UNCHANGED <<ti, _current_chunk_number>>

ConnectionLost_anyError(f) == f \in {"lost", "other"}

\* if err.errno == errorcode.CR_SERVER_LOST:
ConnectionLost(f) == f = "lost"

MysqlError(f) == IF f = "lost" THEN "mysql_lost" ELSE "mysql_other"

\* A query of transfer() itself (SHOW TABLES, SELECT COUNT(*), SELECT *) is
\* outside any try: its error leaves transfer() as it is.
Propagate_reconnecting(f) ==
    IF ConnectionLost(f)
    THEN pc' = "create_reconnect" /\ UNCHANGED raised
    ELSE Raise(MysqlError(f))

Propagate(f) == Raise(MysqlError(f))


\* ------------------------------------------------------------------ actions
\* transfer(): SHOW TABLES, then the first iteration of the loop.
ShowTables ==
    /\ pc = "start"
    /\ Issue(0, "show_tables")
    /\ \E f \in {"ok", "lost", "other"} :
          /\ Meets(f)
          /\ IF f = "ok"
             THEN /\ ti' = 1
                  /\ _current_chunk_number' = 0
                  /\ pc' = "create"
                  /\ UNCHANGED raised
             ELSE /\ Propagate(f)
                  /\ UNCHANGED <<ti, _current_chunk_number>>
    /\ UNCHANGED <<config, total_records, attempting_reconnect, chunk, cursor,
                   target, run, created, copied, callHistory, vacuums>>

\* One run of the body of _create_table after any reconnect: SHOW COLUMNS,
\* the script, executescript and commit, and the except clauses.
_create_table ==
    /\ pc = "create"
    /\ Issue(ti, "create")
    /\ \E f \in {"ok", "lost", "other", "sqlite"} :
          /\ Meets(f)
          /\ LET ddl == _build_create_table_sql(src[ti].name, src[ti].columns)
                 res == executescript(sqlite, ddl)
                 invalid == \E i \in 1..Len(ddl.columns) :
                                ddl.columns[i].type = InvalidColumnType
             IN CASE ConnectionLost(f) /\ MayRetry ->
                       \* self._create_table(table_name, True)
                       /\ pc' = "create_reconnect"
                       /\ attempting_reconnect' = TRUE
                       /\ UNCHANGED <<raised, target, created>>
                  [] ConnectionLost(f) /\ ~MayRetry ->
                       /\ Raise("mysql_lost")
                       /\ UNCHANGED <<attempting_reconnect, target, created>>
                  [] f = "other" ->
                       /\ Raise("mysql_other")
                       /\ UNCHANGED <<attempting_reconnect, target, created>>
                  [] f = "sqlite" ->
                       /\ Raise("sqlite")
                       /\ UNCHANGED <<attempting_reconnect, target, created>>
                  [] f = "ok" /\ invalid ->
                       /\ Raise("ValueError")
                       /\ UNCHANGED <<attempting_reconnect, target, created>>
                  [] f = "ok" /\ ~invalid /\ ~res.ok ->
                       /\ Raise("sqlite")
                       /\ sqlite' = res.db
                       /\ disk' = res.db
                       /\ UNCHANGED <<attempting_reconnect, created>>
                  [] f = "ok" /\ ~invalid /\ res.ok ->
                       /\ sqlite' = res.db
                       /\ disk' = CommittedSchema(res.db)
                       /\ IF attempting_reconnect
                          THEN pc' = "create_except" /\ UNCHANGED created
                          ELSE pc' = "count" /\ created' = created \cup {ti}
                       /\ UNCHANGED <<raised, attempting_reconnect>>
    /\ reconnects' = IF attempting_reconnect THEN reconnects ELSE 0
    /\ UNCHANGED <<config, ti, _current_chunk_number, total_records, chunk, cursor,
                   run, copied, lost_chunk, iterated, inserted, vacuums>>

\* _create_table(table_name, True): self._mysql.reconnect() inside the try.
ReconnectCreate ==
    /\ pc = "create_reconnect"
    /\ reconnects' = reconnects + 1
    /\ \E f \in {"ok", "lost", "other"} :
          /\ Meets(f)
          /\ IF f = "ok"
             THEN pc' = "create" /\ UNCHANGED raised
             ELSE Raise(MysqlError(f))
    /\ UNCHANGED <<config, ti, _current_chunk_number, total_records,
                   attempting_reconnect, chunk, cursor, target, run, ops, created,
                   copied, lost_chunk, iterated, inserted, vacuums>>

\* The except clause of the first call, once the call it made has returned:
\* it logs the error and raises it.
ExceptAfterRetry ==
    /\ pc \in {"create_except", "transfer_except"}
    /\ Raise("mysql_lost")
    /\ UNCHANGED <<config, ti, _current_chunk_number, total_records,
                   attempting_reconnect, chunk, cursor, target, run, faults, met,
                   ops, created, copied, callHistory, vacuums>>

\* SELECT COUNT(*), and the test total_records > 0.
CountRecords ==
    /\ pc = "count"
    /\ Issue(ti, "count")
    /\ \E f \in {"ok", "lost", "other"} :
          /\ Meets(f)
          /\ IF f = "ok"
             THEN /\ total_records' = Len(src[ti].rows)
                  /\ IF HasRecords(total_records')
                     THEN pc' = "select" /\ UNCHANGED <<ti, _current_chunk_number>>
                     ELSE NextTable
                  /\ UNCHANGED raised
             ELSE /\ Propagate(f)
                  /\ UNCHANGED <<total_records, ti, _current_chunk_number>>
    /\ UNCHANGED <<config, attempting_reconnect, chunk, cursor, target, run,
                   created, copied, callHistory, vacuums>>

\* SELECT * FROM the table, the INSERT statement, and the call of
\* _transfer_table_data up to the start of its loop.
SelectRows ==
    /\ pc = "select"
    /\ \E f \in {"ok", "lost", "other"} :
          /\ Meets(f)
          /\ IF f = "ok"
             THEN /\ cursor' = [table |-> ti, pos |-> 0, alive |-> TRUE]
                  /\ chunk' = ResumeIndex
                  /\ pc' = LoopFrom(ResumeIndex, total_records)
                  /\ Issue2(ti, "select", "transfer")
                  /\ UNCHANGED raised
             ELSE /\ Propagate(f)
                  /\ Issue(ti, "select")
                  /\ UNCHANGED <<cursor, chunk>>
    /\ reconnects' = 0
    /\ lost_chunk' = -1
    /\ iterated' = <<>>
    /\ inserted' = 0
    /\ UNCHANGED <<config, ti, _current_chunk_number, total_records,
                   attempting_reconnect, target, run, created, copied, vacuums>>

\* Rows the statement added to the table.
Added(db, before) == Len(db.tables[src[ti].name].rows) - Len(before.tables[src[ti].name].rows)

\* One iteration of the trange loop: the chunk number is stored, then
\* fetchmany(self._chunk_size) and executemany.  No commit here.
TransferChunk ==
    /\ pc = "transfer"
    /\ Chunked
    /\ _current_chunk_number' = StoredChunk(chunk)
    /\ iterated' = Append(iterated, [retry |-> attempting_reconnect, chunk |-> chunk])
    /\ \E f \in {"ok", "lost", "other", "sqlite"} :
          /\ Meets(f)
          /\ LET rows == Fetch(chunk_size)
                 db == executemany(sqlite, src[ti].name, Fields(ti), DecodeRows(rows))
             IN CASE ConnectionLost(f) /\ MayRetry ->
                       \* self._transfer_table_data(..., attempting_reconnect=True)
                       /\ pc' = "transfer_reconnect"
                       /\ attempting_reconnect' = TRUE
                       /\ lost_chunk' = chunk
                       /\ Issue(ti, "fetch")
                       /\ UNCHANGED <<raised, chunk, cursor, target, inserted>>
                  [] ConnectionLost(f) /\ ~MayRetry ->
                       /\ Raise("mysql_lost")
                       /\ Issue(ti, "fetch")
                       /\ UNCHANGED <<attempting_reconnect, lost_chunk, chunk, cursor,
                                      target, inserted>>
                  [] f = "other" ->
                       /\ Raise("mysql_other")
                       /\ Issue(ti, "fetch")
                       /\ UNCHANGED <<attempting_reconnect, lost_chunk, chunk, cursor,
                                      target, inserted>>
                  [] f = "sqlite" ->
                       /\ Raise("sqlite")
                       /\ Issue2(ti, "fetch", "insert")
                       /\ cursor' = [cursor EXCEPT !.pos = @ + Len(rows)]
                       /\ UNCHANGED <<attempting_reconnect, lost_chunk, chunk, target,
                                      inserted>>
                  [] f = "ok" ->
                       /\ sqlite' = db
                       /\ disk' = CommittedAfterChunk(db)
                       /\ inserted' = inserted + Added(db, sqlite)
                       /\ cursor' = [cursor EXCEPT !.pos = @ + Len(rows)]
                       /\ chunk' = chunk + 1
                       /\ pc' = LoopFrom(chunk + 1, total_records)
                       /\ Issue2(ti, "fetch", "insert")
                       /\ UNCHANGED <<raised, attempting_reconnect, lost_chunk>>
    /\ UNCHANGED <<config, ti, total_records, run, created, copied, reconnects,
                   vacuums>>

\* The else branch: fetchall() and one executemany.
TransferAll ==
    /\ pc = "transfer"
    /\ ~Chunked
    /\ \E f \in {"ok", "lost", "other", "sqlite"} :
          /\ Meets(f)
          /\ LET rows == Fetch(0)
                 db == executemany(sqlite, src[ti].name, Fields(ti), DecodeRows(rows))
             IN CASE ConnectionLost(f) /\ MayRetry ->
                       /\ pc' = "transfer_reconnect"
                       /\ attempting_reconnect' = TRUE
                       /\ Issue(ti, "fetch")
                       /\ UNCHANGED <<raised, cursor, sqlite, inserted>>
                  [] ConnectionLost(f) /\ ~MayRetry ->
                       /\ Raise("mysql_lost")
                       /\ Issue(ti, "fetch")
                       /\ UNCHANGED <<attempting_reconnect, cursor, sqlite, inserted>>
                  [] f = "other" ->
                       /\ Raise("mysql_other")
                       /\ Issue(ti, "fetch")
                       /\ UNCHANGED <<attempting_reconnect, cursor, sqlite, inserted>>
                  [] f = "sqlite" ->
                       /\ Raise("sqlite")
                       /\ Issue2(ti, "fetch", "insert")
                       /\ cursor' = [cursor EXCEPT !.pos = @ + Len(rows)]
                       /\ UNCHANGED <<attempting_reconnect, sqlite, inserted>>
                  [] f = "ok" ->
                       /\ sqlite' = db
                       /\ inserted' = inserted + Added(db, sqlite)
                       /\ cursor' = [cursor EXCEPT !.pos = @ + Len(rows)]
                       /\ pc' = "commit"
                       /\ Issue2(ti, "fetch", "insert")
                       /\ UNCHANGED <<raised, attempting_reconnect>>
    /\ UNCHANGED <<config, ti, _current_chunk_number, total_records, chunk, disk, run,
                   created, copied, reconnects, lost_chunk, iterated, vacuums>>

\* _transfer_table_data(..., attempting_reconnect=True): self._mysql.reconnect()
\* before the try, then the loop from the stored chunk number.  The query is
\* not executed again: the result set of the cursor survives the reconnect
\* or it does not.
ReconnectTransfer ==
    /\ pc = "transfer_reconnect"
    /\ reconnects' = reconnects + 1
    /\ \E f \in {"ok", "lost", "other"} :
          /\ Meets(f)
          /\ IF f = "ok"
             THEN /\ \E alive \in BOOLEAN : cursor' = [cursor EXCEPT !.alive = alive]
                  /\ chunk' = ResumeIndex
                  /\ pc' = LoopFrom(ResumeIndex, total_records)
                  /\ UNCHANGED raised
             ELSE /\ Raise(MysqlError(f))
                  /\ UNCHANGED <<cursor, chunk>>
    /\ UNCHANGED <<config, ti, _current_chunk_number, total_records,
                   attempting_reconnect, target, run, ops, created, copied,
                   lost_chunk, iterated, inserted, vacuums>>

\* self._sqlite.commit() after the loop, and the return of _transfer_table_data:
\* to the loop of transfer(), or into the except clause of the first call.
Commit ==
    /\ pc = "commit"
    /\ Issue(ti, "commit")
    /\ \E f \in {"ok", "sqlite"} :
          /\ Meets(f)
          /\ IF f = "ok"
             THEN /\ disk' = sqlite
                  /\ IF attempting_reconnect
                     THEN /\ pc' = "transfer_except"
                          /\ UNCHANGED <<ti, _current_chunk_number, copied>>
                     ELSE /\ copied' = copied \cup {ti}
                          /\ NextTable
                  /\ UNCHANGED raised
             ELSE /\ Raise("sqlite")
                  /\ UNCHANGED <<disk, ti, _current_chunk_number, copied>>
    /\ UNCHANGED <<config, total_records, attempting_reconnect, chunk, cursor, sqlite,
                   run, created, callHistory, vacuums>>

\* if self._vacuum: VACUUM, then "Done!".
Vacuum ==
    /\ pc = "after_tables"
    /\ Vacuuming
    /\ Issue(0, "vacuum")
    /\ \E f \in {"ok", "sqlite"} :
          /\ Meets(f)
          /\ IF f = "ok"
             THEN pc' = "done" /\ vacuums' = vacuums + 1 /\ UNCHANGED raised
             ELSE Raise("sqlite") /\ UNCHANGED vacuums
    /\ UNCHANGED <<config, ti, _current_chunk_number, total_records,
                   attempting_reconnect, chunk, cursor, target, run, created, copied,
                   callHistory>>

\* "Done!" without VACUUM.
Done ==
    /\ pc = "after_tables"
    /\ ~Vacuuming
    /\ pc' = "done"
    /\ UNCHANGED <<config, ti, _current_chunk_number, total_records,
                   attempting_reconnect, chunk, cursor, target, raised, run, faults,
                   met, ops, created, copied, callHistory, vacuums>>

\* Rows of each source table in the target; -1 for a table that is not there.
RowCounts(db) ==
    [i \in 1..Len(src) |->
        IF src[i].name \in DOMAIN db.tables THEN Len(db.tables[src[i].name].rows)
        ELSE -1]

\* The program is started again with the same arguments, after a run that
\* completed or one that failed: a new object on the same target file, which
\* holds what was committed.
Rerun ==
    /\ pc \in {"done", "aborted"}
    /\ run < MaxRuns
    /\ run' = run + 1
    /\ sqlite' = disk
    /\ pc' = "start"
    /\ ti' = 0
    /\ _current_chunk_number' = 0
    /\ total_records' = 0
    /\ attempting_reconnect' = FALSE
    /\ chunk' = 0
    /\ cursor' = NoCursor
    /\ raised' = "none"
    /\ faults' = 0
    /\ met' = "ok"
    /\ ops' = {}
    /\ created' = {}
    /\ copied' = {}
    /\ reconnects' = 0
    /\ lost_chunk' = -1
    /\ iterated' = <<>>
    /\ inserted' = 0
    /\ vacuums' = 0
    /\ prev' = [ended |-> pc, rows |-> RowCounts(disk)]
    /\ UNCHANGED <<src, chunk_size, vacuum, disk, apart>>

Next ==
    \/ ShowTables
    \/ _create_table
    \/ ReconnectCreate
    \/ ExceptAfterRetry
    \/ CountRecords
    \/ SelectRows
    \/ TransferChunk
    \/ TransferAll
    \/ ReconnectTransfer
    \/ Commit
    \/ Vacuum
    \/ Done
    \/ Rerun

Spec == Init /\ [][Next]_vars

\* ------------------------------------------------- the type mapper by itself
\* An object as constructed, on which transfer() is not called.
Idle ==
    /\ chunk_size = 0
    /\ vacuum = FALSE
    /\ sqlite = EmptyDatabase
    /\ disk = EmptyDatabase
    /\ run = 1
    /\ prev = [ended |-> "none", rows |-> <<>>]
    /\ Construct

TypeInit ==
    /\ Idle
    /\ src = <<>>
    /\ declaration \in Declarations
    /\ translated = <<>>
    /\ sql = NoScript
    /\ Constructed

\* MySQLtoSQLite._translate_type_from_mysql_to_sqlite(row["Type"])
Translate ==
    /\ Len(translated) < MaxCalls
    /\ translated' =
          Append(translated, _translate_type_from_mysql_to_sqlite(Text(declaration)))
    /\ UNCHANGED <<src, chunk_size, vacuum, pc, ti, _current_chunk_number,
                   total_records, attempting_reconnect, chunk, cursor, sqlite, disk,
                   raised, run, faults, met, ops, created, copied, reconnects,
                   lost_chunk, iterated, inserted, vacuums, prev, declaration, sql,
                   kwargs, handles>>

TypeNext == Translate

TypeSpec == TypeInit /\ [][TypeNext]_vars

\* ------------------------------------------ the schema synthesizer by itself
SchemaInit ==
    /\ Idle
    /\ src \in SchemaSources
    /\ declaration = NoDeclaration
    /\ translated = <<>>
    /\ sql = NoScript
    /\ Constructed

\* self._build_create_table_sql(table_name): SHOW COLUMNS and the script.
BuildCreateTableSql ==
    /\ sql = NoScript
    /\ sql' = _build_create_table_sql(src[1].name, src[1].columns)
    /\ UNCHANGED <<src, chunk_size, vacuum, pc, ti, _current_chunk_number,
                   total_records, attempting_reconnect, chunk, cursor, sqlite, disk,
                   raised, run, faults, met, ops, created, copied, reconnects,
                   lost_chunk, iterated, inserted, vacuums, prev, declaration,
                   translated, kwargs, handles>>

SchemaNext == BuildCreateTableSql

SchemaSpec == SchemaInit /\ [][SchemaNext]_vars

\* ------------------------------------------------------------ the constructor
\* What kwargs.get(name) returns for an argument that is not given.
Missing == "<None>"

Arguments ==
    [mysql_user : {Missing, "", "user"}, mysql_database : {Missing, "", "db"},
     chunk : ChunkSizes, vacuum : BOOLEAN]

Given_always(v) == TRUE

\* The truth value of an argument: None and "" are false.
Given(v) == v \notin {Missing, ""}

UserMissing == "Please provide a MySQL user"
DatabaseMissing == "Please provide a MySQL database"

\* The call MySQLtoSQLite(**kwargs) at its first statement.
ConstructorInit ==
    /\ kwargs \in Arguments
    /\ handles = {}
    /\ src = <<OtherTable(TableNames[1])>>
    /\ chunk_size = 0
    /\ vacuum = FALSE
    /\ sqlite = EmptyDatabase
    /\ disk = EmptyDatabase
    /\ run = 1
    /\ prev = [ended |-> "none", rows |-> <<>>]
    /\ pc = "init"
    /\ ti = 0
    /\ _current_chunk_number = 0
    /\ total_records = 0
    /\ attempting_reconnect = FALSE
    /\ chunk = 0
    /\ cursor = NoCursor
    /\ raised = "none"
    /\ faults = 0
    /\ met = "ok"
    /\ ops = {}
    /\ created = {}
    /\ copied = {}
    /\ reconnects = 0
    /\ lost_chunk = -1
    /\ iterated = <<>>
    /\ inserted = 0
    /\ vacuums = 0
    /\ declaration = NoDeclaration
    /\ translated = <<>>
    /\ sql = NoScript

\* self._mysql_user = kwargs.get("mysql_user") or None, and its test.
CheckUser ==
    /\ pc = "init"
    /\ IF Given(kwargs.mysql_user)
       THEN pc' = "init_database" /\ UNCHANGED raised
       ELSE Raise(UserMissing)
    /\ UNCHANGED <<src, chunk_size, vacuum, ti, _current_chunk_number, total_records,
                   attempting_reconnect, chunk, cursor, target, run, faults, met, ops,
                   created, copied, callHistory, vacuums, prev, apart>>

\* Password, host and port, the chunk number and size, the test of
\* mysql_database, and the arguments read after it.
CheckDatabase ==
    /\ pc = "init_database"
    /\ _current_chunk_number' = 0
    /\ chunk_size' = kwargs.chunk
    /\ IF Given(kwargs.mysql_database)
       THEN pc' = "init_sqlite" /\ vacuum' = kwargs.vacuum /\ UNCHANGED raised
       ELSE Raise(DatabaseMissing) /\ UNCHANGED vacuum
    /\ UNCHANGED <<src, ti, total_records, attempting_reconnect, chunk, cursor,
                   target, run, faults, met, ops, created, copied, callHistory,
                   vacuums, prev, apart>>

\* sqlite3.connect(realpath(self._sqlite_file)) and the cursor.
ConnectSqlite ==
    /\ pc = "init_sqlite"
    /\ \E f \in {"ok", "sqlite"} :
          /\ Meets(f)
          /\ IF f = "ok"
             THEN pc' = "init_mysql" /\ handles' = handles \cup {"sqlite"}
                  /\ UNCHANGED raised
             ELSE Raise("sqlite") /\ UNCHANGED handles
    /\ UNCHANGED <<src, chunk_size, vacuum, ti, _current_chunk_number, total_records,
                   attempting_reconnect, chunk, cursor, target, run, ops, created,
                   copied, callHistory, vacuums, prev, declaration, translated, sql,
                   kwargs>>

\* mysql.connector.connect(...), the cursors and the choice of the database.
ConnectMysql ==
    /\ pc = "init_mysql"
    /\ \E f \in {"ok", "other"} :
          /\ Meets(f)
          /\ IF f = "ok"
             THEN pc' = "start" /\ handles' = handles \cup {"mysql"}
                  /\ UNCHANGED raised
             ELSE Raise("mysql_other") /\ UNCHANGED handles
    /\ UNCHANGED <<src, chunk_size, vacuum, ti, _current_chunk_number, total_records,
                   attempting_reconnect, chunk, cursor, target, run, ops, created,
                   copied, callHistory, vacuums, prev, declaration, translated, sql,
                   kwargs>>

ConstructorNext ==
    \/ CheckUser
    \/ CheckDatabase
    \/ ConnectSqlite
    \/ ConnectMysql

ConstructorSpec == ConstructorInit /\ [][ConstructorNext]_vars

\* ------------------------------------------------------------- properties
Tables == 1..Len(src)

\* The rows of a sequence with the number of times each occurs.
RowBag(rows) ==
    [r \in {rows[i] : i \in 1..Len(rows)} |->
        Cardinality({i \in 1..Len(rows) : rows[i] = r})]

ColumnNames(t) == [j \in 1..Len(t.columns) |-> t.columns[j].name]

SourceFields(i) == [j \in 1..Len(src[i].columns) |-> src[i].columns[j].Field]

\* The database holds the tables of the source and nothing else: the names,
\* the columns in the order of SHOW COLUMNS, the rows with their multiplicity.
HoldsTheSource(db) ==
    /\ DOMAIN db.tables = {src[i].name : i \in Tables}
    /\ \A i \in Tables :
          LET t == db.tables[src[i].name]
          IN /\ ColumnNames(t) = SourceFields(i)
             /\ RowBag(t.rows) = RowBag(DecodeRows(src[i].rows))

FirstRunDone == pc = "done" /\ run = 1 /\ faults = 0

\* C1: a transfer() into a fresh target file that reaches "Done!" with no
\* error raised has left, in the connection and in the file, exactly the
\* tables of the source, each with the source's columns in order and the
\* source's rows with their multiplicity, whatever the chunk size and the
\* vacuum flag.
C1_TransferCopiesSource ==
    FirstRunDone => HoldsTheSource(sqlite) /\ HoldsTheSource(disk)

C1_Witness ==
    /\ FirstRunDone
    /\ Len(src) = 2
    /\ Chunked
    /\ vacuum
    /\ \E i \in Tables : Len(src[i].rows) = 3 /\ src[i].columns[1].Key = ""
    /\ \E i \in Tables : src[i].columns[1].Key = "PRI" /\ Len(src[i].rows) > 1

\* What an unchunked copy of table i into a fresh target leaves in the table.
UnchunkedTable(i) ==
    LET ddl == _build_create_table_sql(src[i].name, src[i].columns)
        made == executescript(EmptyDatabase, ddl).db
    IN executemany(made, src[i].name, SourceFields(i),
                   DecodeRows(src[i].rows)).tables[src[i].name]

\* C2: a chunked transfer, for every chunk size, leaves in each table what an
\* unchunked transfer of the same source table leaves: the same columns in
\* the same order and the same rows in the same order.
C2_ChunkedEqualsUnchunked ==
    (FirstRunDone /\ Chunked) =>
        \A i \in Tables :
            /\ disk.tables[src[i].name].columns = UnchunkedTable(i).columns
            /\ disk.tables[src[i].name].rows = UnchunkedTable(i).rows

C2_Witness ==
    /\ FirstRunDone
    /\ chunk_size = 2
    /\ \E i \in Tables : Len(src[i].rows) = 3 /\ Len(disk.tables[src[i].name].rows) = 3
    /\ \E i \in Tables : Len(src[i].rows) = 2 /\ Len(disk.tables[src[i].name].rows) = 2

\* C3: after a first run that reached "Done!", a second run that meets no
\* error of the environment also reaches "Done!", and leaves every table
\* with the number of rows the first run left.
C3_SecondRunIdempotent ==
    (run = 2 /\ prev.ended = "done" /\ faults = 0 /\ pc \in {"done", "aborted"}) =>
        /\ pc = "done"
        /\ RowCounts(disk) = prev.rows

\* C4: when the retry of _create_table after a reconnect has succeeded, the
\* table is in the target and the call returns without raising: transfer()
\* goes on to the row count of that table.
C4_CreateRetryTransparent ==
    [][pc = "create_except" =>
          /\ src[ti].name \in DOMAIN disk.tables
          /\ pc' = "count"
          /\ raised' = "none"
          /\ ti' = ti]_vars

\* C5: when the retry of _transfer_table_data after a reconnect has run to
\* its commit, the call returns without raising and all rows of the table
\* are in the target: transfer() goes on to the next table or to its end.
C5_TransferRetryTransparent ==
    [][pc = "transfer_except" =>
          /\ Len(disk.tables[src[ti].name].rows) = Len(src[ti].rows)
          /\ pc' \in {"create", "after_tables"}
          /\ raised' = "none"]_vars

\* The chunk indices the retry has iterated, in order.
RetryChunks == SelectSeq(iterated, LAMBDA e : e.retry)

NumberOfChunks == (total_records + chunk_size - 1) \div chunk_size

Reconnecting == pc \in {"create_reconnect", "transfer_reconnect"}

\* C6: in a chunked transfer, once the fetch of chunk k has lost the
\* connection, one reconnect is made and no more; the retry iterates
\* k, k+1, ... and has iterated k..totalChunks-1 when it ends; it never
\* goes back over rows the cursor has handed out; and an error met during
\* the retry aborts the run.
C6_ResumeAtLostChunk ==
    /\ []((Chunked /\ lost_chunk >= 0) =>
            /\ reconnects = IF pc = "transfer_reconnect" THEN 0 ELSE 1
            /\ \A j \in 1..Len(RetryChunks) : RetryChunks[j].chunk = lost_chunk + j - 1
            /\ pc = "transfer_except" =>
                  Len(RetryChunks) = NumberOfChunks - lost_chunk)
    /\ [][/\ cursor'.table = cursor.table => cursor'.pos >= cursor.pos
          /\ (Chunked /\ lost_chunk >= 0 /\ run' = run /\ faults' > faults) =>
                (pc' = "aborted" /\ reconnects' <= 1)]_vars

C6_Witness ==
    /\ pc = "transfer_except"
    /\ chunk_size = 1
    /\ lost_chunk = 1
    /\ Len(RetryChunks) = 2
    /\ reconnects = 1

Copying == pc \in {"transfer", "transfer_reconnect", "commit"}

\* Rows of the current table the connection has inserted and not committed.
Uncommitted ==
    Len(sqlite.tables[src[ti].name].rows) - Len(disk.tables[src[ti].name].rows)

\* C7 as stated: in chunked mode at most one chunk of rows is inserted and
\* not committed at any point of a table's transfer.
C7_AtMostOneChunkUncommitted ==
    (Chunked /\ Copying) => Uncommitted <= chunk_size

\* C7 as amended: in chunked mode the target is committed once per table,
\* after the loop: while the table is copied every row its transfer has
\* inserted is uncommitted, and outside a table's copy nothing is.
C7_CommitAfterLoop ==
    /\ (Chunked /\ Copying) => Uncommitted = inserted
    /\ (pc \notin {"transfer", "transfer_reconnect", "commit", "aborted"}) =>
          sqlite = disk

C7_Witness ==
    /\ Chunked
    /\ pc = "transfer"
    /\ chunk_size = 1
    /\ Uncommitted = 2
    /\ total_records = 3

\* C8: "Done!" is reached only when _create_table returned for every table
\* and _transfer_table_data returned for every table that has rows; once an
\* exception has left transfer() nothing more is done in that run: no
\* operation on a later table, no "Done!".
C8_DoneOnlyIfAllTablesSucceed ==
    /\ [](/\ pc = "done" =>
               /\ raised = "none"
               /\ \A i \in Tables :
                     /\ i \in created
                     /\ Len(src[i].rows) > 0 => i \in copied
          /\ raised # "none" => pc = "aborted"
          /\ pc = "aborted" =>
               /\ raised # "none"
               /\ \A o \in ops : o[1] <= ti)
    /\ [][(pc = "aborted" /\ run' = run) =>
             (pc' = "aborted" /\ ops' = ops /\ disk' = disk)]_vars

C8_Witness ==
    /\ run = 2
    /\ prev.ended = "done"
    /\ Len(src) = 2
    /\ prev.rows[2] > 0
    /\ pc = "aborted"
    /\ raised = "sqlite"
    /\ ti = 1

CopyOps == {"select", "transfer", "fetch", "insert", "commit"}

\* C9: for a table with no rows the schema is created and the copy step is
\* skipped: no SELECT of its rows, no call of _transfer_table_data, no fetch,
\* insert or commit for it; the count raises nothing and the loop goes on to
\* the next table.
C9_EmptyTableSkipped ==
    /\ [](\A i \in Tables :
            Len(src[i].rows) = 0 =>
               /\ \A op \in CopyOps : <<i, op>> \notin ops
               /\ i \in created => /\ src[i].name \in DOMAIN disk.tables
                                   /\ disk.tables[src[i].name].rows = <<>>)
    /\ [][(pc = "count" /\ Len(src[ti].rows) = 0 /\ run' = run /\ faults' = faults) =>
             /\ raised' = "none"
             /\ IF ti < Len(src)
                THEN ti' = ti + 1 /\ pc' = "create"
                ELSE pc' = "after_tables"]_vars

C9_Witness ==
    /\ pc = "create"
    /\ ti = 2
    /\ Len(src[1].rows) = 0
    /\ src[1].name \in DOMAIN disk.tables
    /\ <<1, "count">> \in ops

\* C10: one call of _create_table or _transfer_table_data reconnects at most
\* once: a call made with attempting_reconnect never starts another retry,
\* and an error it meets leaves transfer().
C10_RetryAtMostOnce ==
    /\ [](reconnects <= 1)
    /\ [][(attempting_reconnect /\ ~Reconnecting /\ run' = run) =>
             /\ ~Reconnecting'
             /\ reconnects' = reconnects
             /\ faults' > faults => (pc' = "aborted" /\ raised' # "none")]_vars

C10_Witness ==
    /\ pc = "aborted"
    /\ raised = "mysql_lost"
    /\ attempting_reconnect
    /\ reconnects = 1
    /\ faults = 2
    /\ ti \notin created

\* Positions inside _create_table and _transfer_table_data.
InCreateTable == pc \in {"create", "create_reconnect"}
InTransferTable == pc \in {"transfer", "transfer_reconnect", "commit"}

NotRetried == {"mysql_other", "sqlite", "ValueError"}

\* C11: an sqlite3.Error, and a mysql.connector.Error whose errno is not
\* CR_SERVER_LOST, raised inside _create_table or _transfer_table_data is
\* not retried: the step that meets it starts no retry call and leads to no
\* reconnect, the error leaves transfer(), and nothing more is done in the run.
C11_OtherErrorsNeverRetried ==
    /\ [][((InCreateTable \/ InTransferTable) /\ run' = run
             /\ (met' \in {"other", "sqlite"} \/ raised' \in NotRetried)) =>
             /\ pc' = "aborted"
             /\ raised' \in NotRetried
             /\ met' = "other" => raised' = "mysql_other"
             /\ met' = "sqlite" => raised' = "sqlite"
             /\ attempting_reconnect' = attempting_reconnect
             /\ ~Reconnecting' /\ (~Reconnecting => reconnects' <= reconnects)]_vars
    /\ [][(pc = "aborted" /\ raised \in NotRetried /\ run' = run) =>
             (pc' = "aborted" /\ reconnects' = reconnects /\ ops' = ops)]_vars

C11_Witness ==
    /\ pc = "aborted"
    /\ raised = "mysql_other"
    /\ met = "other"
    /\ <<1, "fetch">> \in ops
    /\ ti = 1
    /\ ~attempting_reconnect
    /\ reconnects = 0
    /\ faults = 1

\* C12: _create_table run for a table that an earlier run has already
\* created in the target, keyed columns included, meets no target-side
\* error: when the source answers, the script executes, nothing is raised and
\* transfer() goes on to the row count.
C12_CreateTableToleratesRerun ==
    [][(/\ pc = "create"
        /\ run > 1
        /\ src[ti].name \in DOMAIN sqlite.tables
        /\ met' = "ok"
        /\ run' = run) =>
          (raised' = "none" /\ pc' = "count")]_vars

\* ------------------------------------------------ properties of the mapper
StringTypes == {CHAR, NCHAR, NVARCHAR, VARCHAR}

\* The parenthesized numeric length the declaration ends in, or nothing.
TrailingLength(d) ==
    IF d.suffix \in LengthSuffixes /\ d.trail \in {<<>>, <<"\n">>}
    THEN d.suffix ELSE <<>>

\* C13 as stated: for a declaration of CHAR, NCHAR, NVARCHAR or VARCHAR the
\* mapper returns that same name followed by the trailing parenthesized
\* numeric length of the declaration, or the bare name when there is none.
C13_SameNameWithLength ==
    \A i \in 1..Len(translated) :
        declaration.name \in StringTypes =>
            translated[i] = declaration.name \o TrailingLength(declaration)

\* C13 as amended: NCHAR, NVARCHAR and VARCHAR keep their name and CHAR
\* becomes CHARACTER, each followed by the trailing parenthesized numeric
\* length of the declaration, or bare when there is none.
C13_StringTypesKeepLength ==
    \A i \in 1..Len(translated) :
        declaration.name \in StringTypes =>
            translated[i] =
                (IF declaration.name = CHAR THEN CHARACTER ELSE declaration.name)
                    \o TrailingLength(declaration)

C13_Witness ==
    /\ declaration.name = CHAR
    /\ declaration.lower
    /\ declaration.suffix = <<"(", "1", "9", "1", ")">>
    /\ Len(translated) = 1
    /\ translated[1] = CHARACTER \o <<"(", "1", "9", "1", ")">>

\* The policy table of the types that are not string types.
Policy(name) ==
    CASE name \in {TINYINT, SMALLINT, MEDIUMINT, BIGINT} -> name
      [] name \in {INT, INTEGER} -> INTEGER
      [] name \in {DOUBLE, FLOAT, REAL} -> name
      [] name \in {DECIMAL, YEAR, TIME, NUMERIC} -> NUMERIC
      [] name \in {DATETIME, TIMESTAMP} -> DATETIME
      [] name = DATE -> DATE
      [] name \in {BIT, BINARY, BLOB, LONGBLOB, MEDIUMBLOB, TINYBLOB, VARBINARY} -> BLOB
      [] name = BOOLEAN_TYPE -> BOOLEAN_TYPE
      [] OTHER -> TEXT

\* C14: for a declaration whose name is not one of the string types, in
\* upper or lower case, the mapper returns what the policy table gives for
\* the name, TEXT for a name that is not in the table, and it returns the
\* same with and without a suffix in parentheses.
C14_PolicyTable ==
    \A i \in 1..Len(translated) :
        (declaration.name # <<>> /\ declaration.name \notin StringTypes) =>
            translated[i] = Policy(declaration.name)

C14_Witness ==
    /\ declaration.name = INT
    /\ declaration.lower
    /\ declaration.suffix = <<"(", "1", "1", ")">>
    /\ declaration.trail = <<" ", "u">>
    /\ Len(translated) = 1
    /\ translated[1] = INTEGER

TargetNames ==
    {TINYINT, SMALLINT, MEDIUMINT, INTEGER, BIGINT, DOUBLE, FLOAT, NUMERIC, REAL,
     DATETIME, DATE, BLOB, BOOLEAN_TYPE, CHARACTER, NCHAR, NVARCHAR, VARCHAR, TEXT}

IsTargetType(t) ==
    \/ t \in TargetNames
    \/ \E n \in {CHARACTER, NCHAR, NVARCHAR, VARCHAR}, l \in LengthSuffixes : t = n \o l

\* C15: every call of the mapper returns a target type or raises the
\* invalid-type error; it raises exactly for a declaration without a name,
\* whose stripped text is empty or starts with "("; calls on the same
\* declaration return the same, and a call issues nothing to a database and
\* leaves the object as it was.
C15_TotalAndDeterministic ==
    /\ [](/\ \A i \in 1..Len(translated) :
               /\ translated[i] = InvalidColumnType \/ IsTargetType(translated[i])
               /\ translated[i] = InvalidColumnType <=> declaration.name = <<>>
          /\ \A i, j \in 1..Len(translated) : translated[i] = translated[j]
          /\ ops = {})
    /\ [][translated' # translated =>
             UNCHANGED <<_current_chunk_number, cursor, sqlite, disk, raised>>]_vars

C15_Witness ==
    /\ declaration.name = <<>>
    /\ declaration.lead = <<" ">>
    /\ declaration.suffix = <<"(", "1", ")">>
    /\ Len(translated) = 2
    /\ translated[2] = InvalidColumnType

\* ------------------------------------------- properties of the synthesizer
\* The columns of the given key kinds, by position.
Keyed(cols, kinds) == {i \in 1..Len(cols) : cols[i].Key \in kinds}

\* The statements of the script that index column i of cols.
IndexStatements(script, cols, i) ==
    {j \in 1..Len(script.indices) : script.indices[j].column = cols[i].Field}

\* C16: the script has a PRIMARY KEY clause exactly when some column is PRI,
\* and the clause lists every PRI column once, in the order SHOW COLUMNS gave
\* them; every UNI column has exactly one CREATE UNIQUE INDEX statement,
\* every MUL column exactly one plain CREATE INDEX statement, and a PRI or
\* un-keyed column has none.
C16_PrimaryKeyAndIndices ==
    sql # NoScript =>
        LET cols == src[1].columns
            pri == Keyed(cols, {"PRI"})
        IN /\ sql.has_primary_key <=> pri # {}
           /\ Len(sql.primary) = Cardinality(pri)
           /\ \A j \in 1..Len(sql.primary) :
                 \E i \in pri :
                    /\ cols[i].Field = sql.primary[j]
                    /\ Cardinality({k \in pri : k < i}) = j - 1
           /\ Len(sql.indices) = Cardinality(Keyed(cols, {"UNI", "MUL"}))
           /\ \A i \in 1..Len(cols) :
                 /\ Cardinality(IndexStatements(sql, cols, i)) =
                       IF cols[i].Key \in {"UNI", "MUL"} THEN 1 ELSE 0
                 /\ \A j \in IndexStatements(sql, cols, i) :
                       /\ sql.indices[j].unique <=> cols[i].Key = "UNI"
                       /\ sql.indices[j].table = src[1].name

C16_Witness ==
    /\ sql # NoScript
    /\ Len(src[1].columns) = 4
    /\ [i \in 1..4 |-> src[1].columns[i].Key] = <<"PRI", "UNI", "PRI", "MUL">>
    /\ sql.primary = <<"Id", "w">>
    /\ Len(sql.indices) = 2
    /\ sql.indices[1].unique
    /\ ~sql.indices[2].unique

\* ------------------------------------------- properties of the constructor
\* An argument that was left out or given empty.
NotProvided(v) == v = Missing \/ v = ""

\* C17: the constructor raises "Please provide a MySQL user" when mysql_user
\* is not given, and "Please provide a MySQL database" when mysql_user is
\* given and mysql_database is not; it raises them before it opens the
\* target file or connects to the source, and does nothing after.
C17_ConstructionFailsOnMissingArguments ==
    /\ [](/\ (NotProvided(kwargs.mysql_user) /\ pc # "init") =>
               (pc = "aborted" /\ raised = UserMissing)
          /\ (~NotProvided(kwargs.mysql_user) /\ NotProvided(kwargs.mysql_database)
                /\ pc \notin {"init", "init_database"}) =>
               (pc = "aborted" /\ raised = DatabaseMissing)
          /\ raised \in {UserMissing, DatabaseMissing} =>
               (pc = "aborted" /\ handles = {} /\ faults = 0 /\ reconnects = 0)
          /\ (~NotProvided(kwargs.mysql_user) /\ ~NotProvided(kwargs.mysql_database)) =>
               raised \notin {UserMissing, DatabaseMissing})
    /\ [][pc # "aborted"]_vars

C17_Witness ==
    /\ pc = "aborted"
    /\ raised = DatabaseMissing
    /\ kwargs.mysql_user = "user"
    /\ kwargs.mysql_database = Missing
    /\ handles = {}

\* ----------------------------------------------- properties of the transfer
\* The iteration of chunk index j has run to its end in the current table's
\* transfer: fetchmany returned and executemany succeeded, and the loop went
\* on to index j + 1.
Completed(j) ==
    \E p \in 1..Len(iterated) :
        /\ iterated[p].chunk = j
        /\ IF p = Len(iterated) THEN chunk = j + 1
           ELSE /\ iterated[p + 1].chunk = j + 1
                /\ iterated[p + 1].retry = iterated[p].retry

\* The result set of the SELECT did not survive a reconnect.
ResultSetLost == cursor.table # 0 /\ ~cursor.alive

Least(a, b) == IF a < b THEN a ELSE b

C19_ResumeIndexZeroAtTableStart ==
    /\ [](/\ pc \in {"start", "create", "create_reconnect", "create_except",
                     "count", "select"} => _current_chunk_number = 0
          /\ iterated # <<>> => (iterated[1].chunk = 0 /\ ~iterated[1].retry))
    /\ [][ti' # ti => _current_chunk_number' = 0]_vars

C19_Witness ==
    /\ chunk_size = 1
    /\ ti = 2
    /\ Len(src[1].rows) = 3
    /\ 1 \in copied
    /\ pc = "transfer"
    /\ iterated = <<[retry |-> FALSE, chunk |-> 0]>>
    /\ _current_chunk_number = 0

\* The operations of the run on the tables, SHOW TABLES and VACUUM aside.
TableOps == {o \in ops : o[1] # 0}

\* Table i is done with: created, and copied when it has rows.
Finished(i) == i \in created /\ (Len(src[i].rows) > 0 => i \in copied)

\* C20: the tables are taken one at a time in the order of SHOW TABLES: the
\* current table moves on by one and only when the table is done with, every
\* operation is issued on the current table, and a row of a table is
\* inserted only when _create_table has returned for it and its schema is
\* committed.
C20_TablesInOrder ==
    /\ [](/\ \A o \in TableOps : o[1] <= ti
          /\ \A i \in 1..(ti - 1) : Finished(i)
          /\ pc \in {"after_tables", "done"} => \A i \in Tables : Finished(i)
          /\ \A i \in Tables :
                (<<i, "insert">> \in ops \/ <<i, "fetch">> \in ops) =>
                    /\ i \in created
                    /\ src[i].name \in DOMAIN disk.tables)
    /\ [][run' = run =>
             /\ ti' \in {ti, ti + 1}
             /\ \A o \in TableOps' \ TableOps : o[1] = ti
             /\ ti' # ti => (pc' = "create" /\ \A op \in CopyOps : <<ti', op>> \notin ops')]_vars

C20_Witness ==
    /\ Len(src) = 2
    /\ ti = 2
    /\ pc = "commit"
    /\ <<2, "insert">> \in ops
    /\ <<1, "commit">> \in ops
    /\ copied = {1}
    /\ created = {1, 2}
    /\ faults = 0

\* ------------------------------------------------ properties of the run's end
VacuumIssued == <<0, "vacuum">> \in ops

\* C21 as stated: VACUUM is issued only with the vacuum flag set and every
\* table done with, a run that reaches "Done!" has issued it exactly when the
\* flag is set, and exactly once, and a run that an error has aborted has
\* not issued it.
C21_VacuumNeverInAbortedRun ==
    /\ VacuumIssued => (vacuum /\ \A i \in Tables : Finished(i))
    /\ vacuums <= 1
    /\ pc = "done" => (VacuumIssued <=> vacuum)
    /\ pc = "aborted" => ~VacuumIssued

\* C21 as amended: VACUUM is issued exactly when the vacuum flag is set and
\* every table is done with: it is issued from the end of the loop over the
\* tables and nowhere else, once, and "Done!" follows it when it succeeds; a
\* run without the flag ends without it, and a run that an error of a table
\* or of SHOW TABLES has aborted has not issued it.  An error of the VACUUM
\* statement itself aborts the run after the statement was issued, with
\* every table copied and committed.
C21_VacuumAfterAllTables ==
    /\ [](/\ VacuumIssued => (vacuum /\ \A i \in Tables : Finished(i))
          /\ vacuums <= 1
          /\ vacuums = 1 => (VacuumIssued /\ pc = "done")
          /\ pc = "done" => /\ VacuumIssued <=> vacuum
                            /\ vacuums = IF vacuum THEN 1 ELSE 0
          /\ (pc = "aborted" /\ VacuumIssued) =>
                (raised = "sqlite" /\ vacuums = 0 /\ sqlite = disk)
          /\ (pc = "after_tables" /\ vacuum) => ~VacuumIssued)
    /\ [][run' = run =>
             /\ (VacuumIssued' /\ ~VacuumIssued) =>
                   /\ pc = "after_tables"
                   /\ vacuum
                   /\ pc' \in {"done", "aborted"}
                   /\ pc' = "done" <=> vacuums' = 1
                   /\ target' = target
             /\ (pc = "after_tables" /\ vacuum) => VacuumIssued'
             /\ VacuumIssued => (pc' = pc /\ ops' = ops /\ vacuums' = vacuums)]_vars

C21_Witness ==
    /\ pc = "done"
    /\ vacuum
    /\ vacuums = 1
    /\ VacuumIssued
    /\ Len(src) = 2
    /\ copied = {1, 2}
    /\ <<2, "commit">> \in ops

\* C22: when transfer() has ended, with "Done!" or with an error that has
\* left it, the SQLite connection and the MySQL connection are both closed.
C22_HandlesClosedAtEnd ==
    pc \in {"done", "aborted"} => handles = {}

\* transfer() is about to issue a query of its own: SHOW TABLES, SELECT
\* COUNT(*) of a table, or SELECT * of a table.
AtOwnQuery == pc \in {"start", "count", "select"}

\* C23: a connection loss met by a query of transfer() itself (SHOW TABLES,
\* the row count, the SELECT of a table) aborts the run at once with that
\* error and with no reconnect: the retry flag, the target and the position
\* in the list of tables stay as they were.  A reconnect is entered only from
\* _create_table or _transfer_table_data meeting a connection loss, and
\* reconnect() is called only there.
C23_OwnQueriesNeverReconnect ==
    /\ [][(AtOwnQuery /\ run' = run /\ faults' = faults + 1 /\ met' = "lost") =>
             /\ pc' = "aborted"
             /\ raised' = "mysql_lost"
             /\ attempting_reconnect' = attempting_reconnect
             /\ reconnects' <= reconnects
             /\ target' = target
             /\ ti' = ti
             /\ created' = created /\ copied' = copied]_vars
    /\ [][(AtOwnQuery /\ run' = run) =>
             (~Reconnecting' /\ attempting_reconnect' = attempting_reconnect)]_vars
    /\ [][(Reconnecting' /\ ~Reconnecting) =>
             /\ pc \in {"create", "transfer"}
             /\ met' = "lost"
             /\ attempting_reconnect']_vars
    /\ [][reconnects' > reconnects => Reconnecting]_vars
    /\ [](Reconnecting => (attempting_reconnect /\ met = "lost"))

\* The SELECT COUNT(*) of the second table has met a connection loss, after
\* the first table was copied: the run is aborted with that error, no
\* reconnect was tried, and the second table is created and empty.
C23_Witness ==
    /\ pc = "aborted"
    /\ raised = "mysql_lost"
    /\ met = "lost"
    /\ Len(src) = 2
    /\ ti = 2
    /\ copied = {1}
    /\ created = {1, 2}
    /\ <<2, "count">> \in ops
    /\ <<2, "select">> \notin ops
    /\ ~attempting_reconnect
    /\ reconnects = 0
    /\ faults = 1
====
